---------------------------- MODULE Spec2Model ----------------------------
(***************************************************************************)
(* Model of source/Lib/CommonLib/TimeProfiler.h (vvdec): the scalar        *)
(* TimeProfiler, its scope guard StageTimeProfiler, the report written by   *)
(* operator<<, and the extended TimeProfiler2D with StageTimeProfiler2D.    *)
(*                                                                          *)
(* Time.  steady_clock is read in ticks; the model samples it at whole      *)
(* milliseconds, so that every duration<double, std::milli> the code forms  *)
(* is an integer and double arithmetic on it is exact.                      *)
(***************************************************************************)
EXTENDS Integers, Sequences, FiniteSets, TLC

(* ------------------------------ bounds --------------------------------- *)
\* last clock reading of a run, in milliseconds
MaxTime == 3
\* ticks of steady_clock per millisecond (steady_clock::period, scaled down)
TicksPerMs == 2
\* live scope guards per profiler
MaxGuards == 2
\* cap on the sum of one profiler's buckets (stop and += can grow it for ever)
MaxDur == 4
\* extents of the TimeProfiler2D under test: TimeProfiler2D( NumX, NumY, NumZ )
NumX == 2
NumY == 2
NumZ == 2

(* --------------------------- stage registry ---------------------------- *)
P_INTRAPRED == 3
P_MOTCOMP == 4
P_OTHER == 10
P_STAGES == 11
P_VOID == P_STAGES

stageNames ==
  << "P_NALU_SLICE_PIC_HL", "P_CONTROL_PARSE_DERIVE_LL", "P_PARSERESIDUALS",
     "P_INTRAPRED", "P_MOTCOMP", "P_ITRANS_REC", "P_DBFILTER", "P_SAO",
     "P_RESHAPER", "P_ALF", "P_OTHER", "P_STAGES", "P_VOID = P_STAGES" >>

\* const unsigned m_numStages = P_STAGES + 1
m_numStages == P_STAGES + 1

\* indices of std::vector<duration> durations
Slots == 0 .. (m_numStages - 1)

\* the stages the modelled call sites pass
StageIn == {P_INTRAPRED, P_MOTCOMP, P_VOID}

\* the stages passed by the run whose report is written
StageInReport == {P_INTRAPRED, P_OTHER, P_VOID}

\* the stages passed by the contexts whose profilers are merged
StageInMerge == {P_INTRAPRED, P_VOID}

\* the execution contexts, each owning one profiler: a += b has two operands
Ctx == {1, 2}

(* ------------------------------- state --------------------------------- *)
VARIABLES
  clock,    \* steady_clock reading, in ticks
  prof,     \* prof[c]: the TimeProfiler of context c
  guards,   \* guards[c]: the live StageTimeProfiler objects on prof[c], oldest first
  os,       \* what the last output() wrote
  hist,     \* history of the calls made on prof[1]
  nest,     \* progress of a two-level guard bracket on prof[1]
  lastOp,   \* the call that produced this state
  disc,     \* whether the guards on prof[1] were destroyed in LIFO order so far
  sync,     \* where the contexts stand: "running", "joined" or "merged"
  own,      \* own[c]: what context c had accumulated when the contexts joined
  prof2,    \* the TimeProfiler2D
  guards2,  \* the live StageTimeProfiler2D objects on prof2, oldest first
  hist2     \* history of the calls made on prof2

\* the variables of the contexts that are joined and merged
coord == << sync, own >>

\* the variables of the extended profiler
spatial == << prof2, guards2, hist2 >>

vars == << clock, prof, guards, os, hist, nest, lastOp, disc, coord, spatial >>

(* ------------------------------ helpers -------------------------------- *)
RECURSIVE SumTo(_, _)
\* std::accumulate over d[0 .. n-1]
SumTo(d, n) == IF n = 0 THEN 0 ELSE SumTo(d, n - 1) + d[n - 1]

\* the sum of every bucket, "none" included
SumAll(d) == SumTo(d, m_numStages)

\* duration<double, std::milli> from a steady_clock difference in ticks
DurationCast(ticks) == ticks \div TicksPerMs

\* steady_clock::now()
Now == clock

(* --------------------------- TimeProfiler ------------------------------ *)
\* init(): every bucket zero
ZeroDurations == [i \in Slots |-> 0]

\* a plausible slip: the active stage starts at the first stage of the registry
NewProfiler_FirstStage(now) ==
  [m_previous |-> now, m_eStage |-> 0, durations |-> ZeroDurations]

\* TimeProfiler(): m_previous = clock::now(), m_eStage = P_VOID, init()
NewProfiler(now) ==
  [m_previous |-> now, m_eStage |-> P_VOID, durations |-> ZeroDurations]

\* a plausible slip: the interval is charged to the incoming stage
TransitionOp_ChargeNew(p, s, now) ==
  [p EXCEPT !.durations[s] = @ + DurationCast(now - p.m_previous),
            !.m_previous = now,
            !.m_eStage = s]

\* a plausible slip: m_previous = now is left out
TransitionOp_KeepPrevious(p, s, now) ==
  [p EXCEPT !.durations[p.m_eStage] = @ + DurationCast(now - p.m_previous),
            !.m_eStage = s]

\* operator()( STAGE s )
TransitionOp(p, s, now) ==
  [p EXCEPT !.durations[p.m_eStage] = @ + DurationCast(now - p.m_previous),
            !.m_previous = now,
            !.m_eStage = s]

\* a plausible slip: start() flushes the open interval like operator()
StartOp_Flush(p, s, now) == TransitionOp(p, s, now)

\* start( STAGE s )
StartOp(p, s, now) ==
  [p EXCEPT !.m_previous = now, !.m_eStage = s]

\* stop( STAGE s ): the argument is not used
StopOp(p, now) ==
  [p EXCEPT !.durations[p.m_eStage] = @ + DurationCast(now - p.m_previous)]

\* a plausible slip: = written for +=
MergeDurations_Assign(d1, d2) ==
  [i \in DOMAIN d1 |-> IF i \in DOMAIN d2 THEN d2[i] ELSE d1[i]]

\* the loop of operator+=
MergeDurations(d1, d2) ==
  [i \in DOMAIN d1 |-> IF i \in DOMAIN d2 THEN d1[i] + d2[i] ELSE d1[i]]

\* a plausible slip: the other profiler's stage and timestamp are taken over
MergeOp_CopyState(p, other) ==
  [other EXCEPT !.durations = MergeDurations(p.durations, other.durations)]

\* operator+=( const TimeProfiler& other )
MergeOp(p, other) ==
  [p EXCEPT !.durations = MergeDurations(p.durations, other.durations)]

\* curStage()
curStage(p) == p.m_eStage

(* ------------------------- StageTimeProfiler --------------------------- *)
\* a plausible slip: the stage is captured after the transition
NewGuard_CaptureAfter(p, s) == [m_ePrevStage |-> s, stage |-> s]

\* StageTimeProfiler( pcProfiler, m_eStage ): m_ePrevStage = curStage();
\* `stage' remembers the stage the guard was constructed for
NewGuard(p, s) == [m_ePrevStage |-> curStage(p), stage |-> s]


(* ------------------------------ report --------------------------------- *)
\* the value of a / b in double arithmetic, kept exact as a fraction;
\* den = 0 marks a division by zero (the stream then shows inf or nan)
Quotient(a, b) == [num |-> a, den |-> b]

\* the digits std::fixed << std::setprecision(1) writes for num / den, as a
\* count of tenths (round to nearest, ties to even); -1 stands for inf / nan
Fixed1(num, den) ==
  IF den = 0 THEN -1
  ELSE LET q == (10 * num) \div den
           r == (10 * num) % den
       IN  IF 2 * r < den THEN q
           ELSE IF 2 * r > den THEN q + 1
           ELSE IF q % 2 = 0 THEN q ELSE q + 1

\* a plausible slip: the sum runs to durations.end()
Counted_ToEnd(d) == SumTo(d, m_numStages)

\* counted = std::accumulate( durations.begin(), durations.end() - 1, duration{} )
Counted(d) == SumTo(d, m_numStages - 1)

\* one line of the table: stage name, v / scale, ( v / counted ) * 100.0
StageRow(d, i) ==
  LET v == d[i]
      pct == Quotient(100 * v, Counted(d))
  IN  [name |-> stageNames[i + 1],
       time |-> v,
       timeShown |-> Fixed1(v, 1),
       pct |-> pct,
       pctShown |-> Fixed1(pct.num, pct.den)]

\* the last line: "TOTAL", counted / scale, the literal 100.00
TotalRow(d) ==
  [name |-> "TOTAL",
   time |-> Counted(d),
   timeShown |-> Fixed1(Counted(d), 1),
   pct |-> Quotient(100, 1),
   pctShown |-> Fixed1(100, 1)]

\* a plausible slip: every stage gets a line
RowShown_Always(d, i) == TRUE

\* the test that decides whether stage i gets a line
RowShown(d, i) == d[i] # 0

RECURSIVE StageRows(_, _)
\* for( size_t i = 0; i < P_STAGES; ++i ): the lines of the stages below n
StageRows(d, n) ==
  IF n = 0 THEN << >>
  ELSE LET rest == StageRows(d, n - 1)
       IN  IF RowShown(d, n - 1) THEN Append(rest, StageRow(d, n - 1)) ELSE rest

\* operator<<( std::ostream&, const TimeProfiler& ): the lines under the
\* column titles, the stage lines first and the TOTAL line last
Report(p) == Append(StageRows(p.durations, P_STAGES), TotalRow(p.durations))

(* --------------------------- TimeProfiler2D ---------------------------- *)
\* the counter types of a StatCounter2DSet initialised with stageNames
CntTypes == 0 .. (Len(stageNames) - 1)

\* m_counters after the constructor: numZ sets of one numX by numY surface
\* per counter type, every cell zero
ZeroCounters ==
  [z \in 0 .. (NumZ - 1) |->
     [s \in CntTypes |-> [y \in 0 .. (NumY - 1) |-> [x \in 0 .. (NumX - 1) |-> 0]]]]

\* TimeProfiler2D( numX, numY, numZ )
NewProfiler2D(now) ==
  [m_previous |-> now, m_stage |-> P_VOID,
   m_curX |-> 0, m_curY |-> 0, m_curZ |-> 0,
   m_counters |-> ZeroCounters]

\* ( now - m_previous ).count(): the ticks of a steady_clock difference
TickCount(from, to) == to - from

\* a plausible slip: the interval is charged at the incoming key
CountOp_ChargeNew(p, s, x, y, z, now) ==
  [p EXCEPT !.m_counters[z][s][y][x] = @ + TickCount(p.m_previous, now),
            !.m_previous = now,
            !.m_stage = s, !.m_curX = x, !.m_curY = y, !.m_curZ = z]

\* a plausible slip: the layer of the incoming key is used for the charge
CountOp_NewLayer(p, s, x, y, z, now) ==
  [p EXCEPT !.m_counters[z][p.m_stage][p.m_curY][p.m_curX] =
              @ + TickCount(p.m_previous, now),
            !.m_previous = now,
            !.m_stage = s, !.m_curX = x, !.m_curY = y, !.m_curZ = z]

\* count( STAGE s, unsigned x, unsigned y, unsigned z )
CountOp(p, s, x, y, z, now) ==
  [p EXCEPT !.m_counters[p.m_curZ][p.m_stage][p.m_curY][p.m_curX] =
              @ + TickCount(p.m_previous, now),
            !.m_previous = now,
            !.m_stage = s, !.m_curX = x, !.m_curY = y, !.m_curZ = z]

\* a plausible slip: start() moves the coordinates to the origin
Start2DOp_ResetKey(p, s, now) ==
  [p EXCEPT !.m_previous = now, !.m_stage = s,
            !.m_curX = 0, !.m_curY = 0, !.m_curZ = 0]

\* TimeProfiler2D::start( STAGE s )
Start2DOp(p, s, now) ==
  [p EXCEPT !.m_previous = now, !.m_stage = s]

\* TimeProfiler2D::stop( STAGE s ): count( m_stage, m_curX, m_curY, m_curZ )
Stop2DOp(p, now) == CountOp(p, p.m_stage, p.m_curX, p.m_curY, p.m_curZ, now)

\* curStage(), curX(), curY(), curZ()
CurKey(p) == [s |-> p.m_stage, x |-> p.m_curX, y |-> p.m_curY, z |-> p.m_curZ]

\* the cell of key k in getCountersSet()
Cell(p, k) == p.m_counters[k.z][k.s][k.y][k.x]

\* the keys the callers pass to count() and to the guards
KeyIn ==
  { [s |-> P_INTRAPRED, x |-> 1, y |-> 0, z |-> 0],
    [s |-> P_MOTCOMP, x |-> 0, y |-> 1, z |-> 1],
    [s |-> P_MOTCOMP, x |-> 1, y |-> 1, z |-> 0] }

\* the stages the callers pass to TimeProfiler2D::start
StageIn2D == {P_INTRAPRED, P_MOTCOMP}

\* a plausible slip: the guard captures the key after its own count()
NewGuard2D_CaptureAfter(p, k) ==
  [m_prevStage |-> k.s, m_prevX |-> k.x, m_prevY |-> k.y, m_prevZ |-> k.z]

\* StageTimeProfiler2D( pcProfiler, m_eStage, x, y, z ): the captured fields
NewGuard2D(p, k) ==
  [m_prevStage |-> p.m_stage,
   m_prevX |-> p.m_curX, m_prevY |-> p.m_curY, m_prevZ |-> p.m_curZ]

(* ------------------------- history variables --------------------------- *)
\* no call has been made on the profiler yet
NoHist ==
  [called |-> FALSE, pure |-> TRUE, idle |-> FALSE,
   firstT |-> 0, lastT |-> 0, preNone |-> 0, expect |-> 0]

\* the history after a call of operator() at time now
HistTransition(h, p, now) ==
  IF ~h.called
  THEN [called |-> TRUE, pure |-> h.pure, idle |-> FALSE,
        firstT |-> now, lastT |-> now,
        preNone |-> DurationCast(now - p.m_previous), expect |-> 0]
  ELSE [h EXCEPT !.idle = @ \/ (p.m_eStage = P_VOID),
                 !.expect = @ + DurationCast(now - h.lastT),
                 !.lastT = now]

\* the history after start() at time now: the open interval is dropped
HistStart(h, now) ==
  IF ~h.called
  THEN [called |-> TRUE, pure |-> FALSE, idle |-> FALSE,
        firstT |-> now, lastT |-> now, preNone |-> 0, expect |-> 0]
  ELSE [h EXCEPT !.pure = FALSE, !.lastT = now]

\* the history after stop() at time now
HistStop(h, p, now) ==
  [HistTransition(h, p, now) EXCEPT !.pure = FALSE]

\* no guard bracket is being followed
NoNest ==
  [phase |-> 0, Y |-> P_VOID, X |-> P_VOID,
   t0 |-> 0, t1 |-> 0, t2 |-> 0, t3 |-> 0, base |-> ZeroDurations]

\* a guard for stage s is constructed on profiler p with n guards live; base
\* holds the buckets as the bracket finds them at t0
NestEnter(m, p, n, s, now) ==
  IF n = 0
  THEN [NoNest EXCEPT !.phase = 1, !.Y = s, !.t0 = now,
                      !.base = TransitionOp(p, s, now).durations]
  ELSE IF m.phase = 1 /\ n = 1 /\ s # m.Y
  THEN [m EXCEPT !.phase = 2, !.X = s, !.t1 = now]
  ELSE NoNest

\* guard i of n live guards is destroyed
NestExit(m, n, i, now) ==
  IF m.phase = 2 /\ n = 2 /\ i = 2 THEN [m EXCEPT !.phase = 3, !.t2 = now]
  ELSE IF m.phase = 3 /\ n = 1 /\ i = 1 THEN [m EXCEPT !.phase = 4, !.t3 = now]
  ELSE NoNest

\* a layer-indexed table of zeros
ZeroLayers == [z \in 0 .. (NumZ - 1) |-> 0]

\* no call has been made on the TimeProfiler2D yet: lastT is the time of the
\* latest call (or of construction), spent[z] the ticks layer z has been the
\* current one up to lastT, dropped[z] those of them a start() discarded
NoHist2 ==
  [lastT |-> 0, spent |-> ZeroLayers, dropped |-> ZeroLayers]

\* the history after count() or stop() on profiler p at time now
Hist2Count(h, p, now) ==
  [h EXCEPT !.spent[p.m_curZ] = @ + (now - h.lastT), !.lastT = now]

\* the history after start() on profiler p at time now
Hist2Start(h, p, now) ==
  [h EXCEPT !.spent[p.m_curZ] = @ + (now - h.lastT),
            !.dropped[p.m_curZ] = @ + (now - h.lastT),
            !.lastT = now]

\* what is remembered of a guard constructed with key k on profiler p, which
\* is q after the constructor: the key before it, the cell of k after it, and
\* the ticks that passed since while the guard was the innermost one (mine)
\* or while a guard inside it had the same key (inner)
Live(p, q, k) ==
  [g |-> NewGuard2D(p, k), key |-> k, before |-> CurKey(p),
   cell0 |-> Cell(q, k), mine |-> 0, inner |-> 0]

\* the live guards after dt more ticks, spent under the innermost one
Charged(gs, dt) ==
  [i \in 1 .. Len(gs) |->
     IF i = Len(gs) THEN [gs[i] EXCEPT !.mine = @ + dt]
     ELSE IF gs[i].key = gs[Len(gs)].key THEN [gs[i] EXCEPT !.inner = @ + dt]
     ELSE gs[i]]

\* the call name on the TimeProfiler2D p at time now
Op2D(name, p, now) ==
  [op |-> name, c |-> 0, from |-> p.m_stage, dt |-> TickCount(p.m_previous, now)]

\* no guard is live: the discipline holds, and nothing came before
NoDisc == [lifo |-> TRUE, before |-> P_VOID]

\* a guard is constructed on profiler p with n guards live: the outermost one
\* starts a new bracket, entered from the stage active then
DiscEnter(d, p, n) == IF n = 0 THEN [lifo |-> TRUE, before |-> p.m_eStage] ELSE d

\* guard i of n live guards is destroyed: out of order unless it is the last
DiscExit(d, n, i) == IF i = n THEN d ELSE [d EXCEPT !.lifo = FALSE]

\* the history variables follow the profiler of context 1
Watched(c, new, old) == IF c = 1 THEN new ELSE old

\* the call name on profiler p of context c at time now
Op(name, c, p, now) ==
  [op |-> name, c |-> c, from |-> p.m_eStage,
   dt |-> DurationCast(now - p.m_previous)]

\* a step that calls nothing
NoOp(name) == [op |-> name, c |-> 0, from |-> P_VOID, dt |-> 0]

(* ------------------------------ actions -------------------------------- *)
Init ==
  /\ clock = 0
  /\ prof = [c \in Ctx |-> NewProfiler(0)]
  /\ guards = [c \in Ctx |-> << >>]
  /\ os = << >>
  /\ hist = NoHist
  /\ nest = NoNest
  /\ lastOp = NoOp("ctor")
  /\ disc = NoDisc
  /\ sync = "running"
  /\ own = [c \in Ctx |-> ZeroDurations]
  /\ prof2 = NewProfiler2D(0)
  /\ guards2 = << >>
  /\ hist2 = NoHist2

\* time passes
Tick ==
  /\ clock < MaxTime * TicksPerMs
  /\ clock' = clock + TicksPerMs
  /\ lastOp' = NoOp("tick")
  /\ UNCHANGED << prof, guards, os, hist, nest >>
  /\ UNCHANGED << disc, coord, spatial >>

\* PROFILER_ACCUM_AND_START_NEW_SET: ( *p )( s )
Transition(c, s) ==
  /\ prof' = [prof EXCEPT ![c] = TransitionOp(@, s, Now)]
  /\ hist' = Watched(c, HistTransition(hist, prof[c], Now), hist)
  /\ nest' = Watched(c, NoNest, nest)
  /\ lastOp' = Op("transition", c, prof[c], Now)
  /\ UNCHANGED << clock, guards, os >>
  /\ UNCHANGED << disc, coord, spatial >>

\* PROFILER_START: ( *p ).start( s )
Start(c, s) ==
  /\ prof' = [prof EXCEPT ![c] = StartOp(@, s, Now)]
  /\ hist' = Watched(c, HistStart(hist, Now), hist)
  /\ nest' = Watched(c, NoNest, nest)
  /\ lastOp' = Op("start", c, prof[c], Now)
  /\ UNCHANGED << clock, guards, os >>
  /\ UNCHANGED << disc, coord, spatial >>

\* p->stop( s )
Stop(c) ==
  /\ SumAll(StopOp(prof[c], Now).durations) <= MaxDur
  /\ prof' = [prof EXCEPT ![c] = StopOp(@, Now)]
  /\ hist' = Watched(c, HistStop(hist, prof[c], Now), hist)
  /\ nest' = Watched(c, NoNest, nest)
  /\ lastOp' = Op("stop", c, prof[c], Now)
  /\ UNCHANGED << clock, guards, os >>
  /\ UNCHANGED << disc, coord, spatial >>

\* StageTimeProfiler( pcProfiler, m_eStage )
GuardEnter(c, s) ==
  /\ Len(guards[c]) < MaxGuards
  /\ guards' = [guards EXCEPT ![c] = Append(@, NewGuard(prof[c], s))]
  /\ prof' = [prof EXCEPT ![c] = TransitionOp(@, s, Now)]
  /\ hist' = Watched(c, HistTransition(hist, prof[c], Now), hist)
  /\ nest' = Watched(c, NestEnter(nest, prof[c], Len(guards[c]), s, Now), nest)
  /\ lastOp' = Op("enter", c, prof[c], Now)
  /\ UNCHANGED << clock, os >>
  /\ disc' = Watched(c, DiscEnter(disc, prof[c], Len(guards[c])), disc)
  /\ UNCHANGED << coord, spatial >>

\* ~StageTimeProfiler() of the i-th live guard (the last one under LIFO)
GuardExit(c, i) ==
  /\ i \in 1 .. Len(guards[c])
  /\ LET g == guards[c][i]
     IN  /\ prof' = [prof EXCEPT ![c] = TransitionOp(@, g.m_ePrevStage, Now)]
         /\ lastOp' = Op("exit", c, prof[c], Now)
  /\ guards' = [guards EXCEPT ![c] =
                  SubSeq(@, 1, i - 1) \o SubSeq(@, i + 1, Len(@))]
  /\ hist' = Watched(c, HistTransition(hist, prof[c], Now), hist)
  /\ nest' = Watched(c, NestExit(nest, Len(guards[c]), i, Now), nest)
  /\ UNCHANGED << clock, os >>
  /\ disc' = Watched(c, DiscExit(disc, Len(guards[c]), i), disc)
  /\ UNCHANGED << coord, spatial >>

\* a += b
Merge(a, b) ==
  /\ a # b
  /\ SumAll(MergeOp(prof[a], prof[b]).durations) <= MaxDur
  /\ prof' = [prof EXCEPT ![a] = MergeOp(@, prof[b])]
  /\ hist' = Watched(a, [hist EXCEPT !.called = TRUE, !.pure = FALSE], hist)
  /\ nest' = Watched(a, NoNest, nest)
  /\ lastOp' = Op("merge", a, prof[a], prof[a].m_previous)
  /\ UNCHANGED << clock, guards, os >>
  /\ UNCHANGED << disc, coord, spatial >>

\* p->output( os )
Output(c) ==
  /\ os' = Report(prof[c])
  /\ lastOp' = Op("output", c, prof[c], prof[c].m_previous)
  /\ UNCHANGED << clock, prof, guards, hist, nest >>
  /\ UNCHANGED << disc, coord, spatial >>

\* p->count( s, x, y, z ) with k = ( s, x, y, z )
Count2D(k) ==
  /\ prof2' = CountOp(prof2, k.s, k.x, k.y, k.z, Now)
  /\ hist2' = Hist2Count(hist2, prof2, Now)
  /\ lastOp' = Op2D("count", prof2, Now)
  /\ UNCHANGED << clock, prof, guards, os, hist, nest, disc, coord, guards2 >>

\* p->start( s ) on the TimeProfiler2D
Start2D(s) ==
  /\ prof2' = Start2DOp(prof2, s, Now)
  /\ hist2' = Hist2Start(hist2, prof2, Now)
  /\ lastOp' = Op2D("start2d", prof2, Now)
  /\ UNCHANGED << clock, prof, guards, os, hist, nest, disc, coord, guards2 >>

\* p->stop( s ) on the TimeProfiler2D
Stop2D ==
  /\ prof2' = Stop2DOp(prof2, Now)
  /\ hist2' = Hist2Count(hist2, prof2, Now)
  /\ lastOp' = Op2D("stop2d", prof2, Now)
  /\ UNCHANGED << clock, prof, guards, os, hist, nest, disc, coord, guards2 >>

\* StageTimeProfiler2D( pcProfiler, m_eStage, x, y, z ) with k the new key
GuardEnter2D(k) ==
  /\ Len(guards2) < MaxGuards
  /\ prof2' = CountOp(prof2, k.s, k.x, k.y, k.z, Now)
  /\ guards2' = Append(Charged(guards2, Now - hist2.lastT), Live(prof2, prof2', k))
  /\ hist2' = [hist2 EXCEPT !.lastT = Now]
  /\ lastOp' = NoOp("enter2d")
  /\ UNCHANGED << clock, prof, guards, os, hist, nest, disc, coord >>

\* ~StageTimeProfiler2D() of the innermost live guard: the guards are block
\* scoped objects, which leave their scopes in reverse order of construction
GuardExit2D ==
  /\ Len(guards2) > 0
  /\ LET gs == Charged(guards2, Now - hist2.lastT)
         i == Len(gs)
         g == gs[i].g
     IN  /\ prof2' = CountOp(prof2, g.m_prevStage, g.m_prevX, g.m_prevY, g.m_prevZ, Now)
         /\ guards2' = SubSeq(gs, 1, i - 1)
         /\ hist2' = [hist2 EXCEPT !.lastT = Now]
         /\ lastOp' = [op |-> "exit2d", c |-> 0, from |-> gs[i].key.s,
                       dt |-> gs[i].mine]
  /\ UNCHANGED << clock, prof, guards, os, hist, nest, disc, coord >>

\* a call of context c on its own profiler before the synchronisation point
Work(c, s, call) ==
  /\ sync = "running"
  /\ prof' = [prof EXCEPT ![c] =
               CASE call = "transition" -> TransitionOp(@, s, Now)
                 [] call = "start" -> StartOp(@, s, Now)
                 [] call = "stop" -> StopOp(@, Now)]
  /\ SumAll(prof'[c].durations) <= MaxDur
  /\ own' = [own EXCEPT ![c] = prof'[c].durations]
  /\ lastOp' = [NoOp(call) EXCEPT !.c = c]
  /\ UNCHANGED << clock, guards, os, hist, nest, disc, sync, spatial >>

\* every context has reached the synchronisation point
Join ==
  /\ sync = "running"
  /\ sync' = "joined"
  /\ lastOp' = NoOp("join")
  /\ UNCHANGED << clock, prof, guards, os, hist, nest, disc, own, spatial >>

\* the coordinator merges the profilers: *p1 += *p2
CoordMerge ==
  /\ sync = "joined"
  /\ sync' = "merged"
  /\ prof' = [prof EXCEPT ![1] = MergeOp(@, prof[2])]
  /\ lastOp' = Op("merge", 1, prof[1], prof[1].m_previous)
  /\ UNCHANGED << clock, guards, os, hist, nest, disc, own, spatial >>

(* --------------------------- specifications --------------------------- *)
\* one execution context drives its profiler through direct calls
Next ==
  \/ Tick
  \/ \E s \in StageIn : Transition(1, s)
  \/ \E s \in StageIn : Start(1, s)
  \/ Stop(1)

Spec == Init /\ [][Next]_vars

\* one execution context brackets its work with scope guards
NextGuard ==
  \/ Tick
  \/ \E s \in StageIn : GuardEnter(1, s)
  \/ \E i \in 1 .. MaxGuards : GuardExit(1, i)

SpecGuard == Init /\ [][NextGuard]_vars

\* one execution context runs and writes its report
NextReport ==
  \/ Tick
  \/ \E s \in StageInReport : Transition(1, s)
  \/ \E s \in StageInReport : Start(1, s)
  \/ Output(1)

SpecReport == Init /\ [][NextReport]_vars

\* two execution contexts run and their profilers are merged
NextMerge ==
  \/ Tick
  \/ \E c \in Ctx, s \in StageInMerge : Transition(c, s)
  \/ \E a, b \in Ctx : Merge(a, b)

SpecMerge == Init /\ [][NextMerge]_vars

\* one execution context drives its TimeProfiler2D through direct calls
Next2D ==
  \/ Tick
  \/ \E k \in KeyIn : Count2D(k)
  \/ \E s \in StageIn2D : Start2D(s)
  \/ Stop2D

Spec2D == Init /\ [][Next2D]_vars

\* one execution context brackets its work with StageTimeProfiler2D guards
NextGuard2D ==
  \/ Tick
  \/ \E k \in KeyIn : GuardEnter2D(k)
  \/ GuardExit2D

SpecGuard2D == Init /\ [][NextGuard2D]_vars

\* two execution contexts run, meet, and a coordinator merges their profilers
NextCtx ==
  \/ Tick
  \/ \E c \in Ctx, s \in StageInMerge,
         call \in {"transition", "start", "stop"} : Work(c, s, call)
  \/ Join
  \/ CoordMerge

SpecCtx == Init /\ [][NextCtx]_vars

(* ------------------------------ claims --------------------------------- *)
\* milliseconds between two clock readings
Ms(from, to) == (to - from) \div TicksPerMs

\* C1: a transition(s) at time now adds now - lastTransitionTime to the
\* bucket of the stage that was active before the call, leaves every other
\* bucket unchanged, and then makes s the active stage and now the last
\* transition time.
C1_RetroactiveAttribution ==
  [][\A s \in StageIn :
       Transition(1, s) =>
         LET p == prof[1]
             q == prof'[1]
         IN  /\ q.durations[p.m_eStage] =
                  p.durations[p.m_eStage] + Ms(p.m_previous, clock)
             /\ \A i \in Slots \ {p.m_eStage} : q.durations[i] = p.durations[i]
             /\ q.m_eStage = s
             /\ q.m_previous = clock]_vars

\* C1 witness: start(INTRA) at 0, transition(MOTCOMP) after two thirds of the
\* run, transition(NONE) at its end: INTRA 2/3, MOTCOMP 1/3, nothing elsewhere.
C1_Witness ==
  /\ lastOp.op = "transition"
  /\ lastOp.from = P_MOTCOMP
  /\ lastOp.dt = 1
  /\ prof[1].m_eStage = P_VOID
  /\ prof[1].durations =
       [i \in Slots |-> IF i = P_INTRAPRED THEN 2 ELSE IF i = P_MOTCOMP THEN 1 ELSE 0]

\* C2 as stated: after N transition calls on a fresh profiler (no start, stop
\* or merge), the buckets other than "none" sum to the time of call N minus
\* the time of call 1.
C2_Original ==
  (hist.called /\ hist.pure) =>
    SumAll(prof[1].durations) - prof[1].durations[P_VOID] =
      Ms(hist.firstT, hist.lastT)

\* C2 amended: the same, provided none of the calls 1 .. N-1 passed "none"
\* (after such a call the interval up to the next call goes to the "none" bucket).
C2_TransitionSum ==
  (hist.called /\ hist.pure /\ ~hist.idle) =>
    SumAll(prof[1].durations) - prof[1].durations[P_VOID] =
      Ms(hist.firstT, hist.lastT)

\* C2 witness: three or more transitions, the first after construction, with
\* time in two stage buckets and in "none".
C2_Witness ==
  /\ hist.called /\ hist.pure /\ ~hist.idle
  /\ prof[1].durations[P_VOID] > 0
  /\ prof[1].durations[P_INTRAPRED] > 0
  /\ prof[1].durations[P_MOTCOMP] > 0

\* C3: stop() at time now leaves the profiler in the state that
\* transition(currentStage) at the same now leaves it in.
C3_StopIsTransition ==
  [][Stop(1) => prof'[1] = TransitionOp(prof[1], prof[1].m_eStage, clock)]_vars

\* C4: after any sequence of start, transition and stop calls the buckets sum
\* to the time between the first and the latest call, less the interval charged
\* to "none" by the first call and the intervals a start discards: every other
\* interval is counted once.
C4_SumIsElapsed ==
  hist.called =>
    SumAll(prof[1].durations) - hist.preNone = hist.expect

\* C5: an outer guard for Y entered at t0, an inner guard for X # Y entered
\* at t1 and left at t2, the outer guard left at t3: the bracket adds t2 - t1
\* to X and (t1 - t0) + (t3 - t2) to Y.
C5_Nesting ==
  nest.phase = 4 =>
    LET m == nest
        d == prof[1].durations
    IN  /\ d[m.X] - m.base[m.X] = Ms(m.t1, m.t2)
        /\ d[m.Y] - m.base[m.Y] = Ms(m.t0, m.t1) + Ms(m.t2, m.t3)

\* C5 witness: a finished bracket with t0 < t1 < t2 < t3.
C5_Witness ==
  /\ nest.phase = 4
  /\ nest.t0 < nest.t1
  /\ nest.t1 < nest.t2
  /\ nest.t2 < nest.t3

\* vectors of durations a third profiler may hold
SomeDurations ==
  { [i \in Slots |-> IF i = P_INTRAPRED THEN x ELSE IF i = P_VOID THEN y ELSE 0] :
      x \in 0 .. 1, y \in 0 .. 1 }

\* C6: a += b leaves in every bucket of a, "none" included, the sum of what
\* a and b held there; merging is commutative and associative.
C6_MergeAdds ==
  /\ [][\A a, b \in Ctx :
          Merge(a, b) =>
            \A i \in Slots :
              prof'[a].durations[i] = prof[a].durations[i] + prof[b].durations[i]]_vars
  /\ [](LET da == prof[1].durations
            db == prof[2].durations
        IN  /\ MergeDurations(da, db) = MergeDurations(db, da)
            /\ \A dc \in SomeDurations :
                 MergeDurations(MergeDurations(da, db), dc) =
                   MergeDurations(da, MergeDurations(db, dc)))

\* C6 witness: a merge whose operands both held time in the same bucket.
C6_Witness ==
  /\ lastOp.op = "merge"
  /\ \E a, b \in Ctx :
       /\ a = lastOp.c
       /\ a # b
       /\ prof[b].durations[P_INTRAPRED] > 0
       /\ prof[a].durations[P_INTRAPRED] > prof[b].durations[P_INTRAPRED]
       /\ prof[b].durations[P_VOID] > 0
       /\ prof[a].durations[P_VOID] > prof[b].durations[P_VOID]

\* the profiler whose report os holds, while nothing has been called since
Reported == prof[1].durations

\* the stages that have a line of their own: every stage but "none"
RowStages == 0 .. (P_STAGES - 1)

\* the registry index of a display name
StageOf(name) == CHOOSE i \in RowStages : stageNames[i + 1] = name

\* the tracked total: the time in every bucket but "none"
Tracked(d) == SumAll(d) - d[P_VOID]

RECURSIVE PctSum(_, _)
\* the numerators of the first n percentages, which share one denominator
PctSum(lines, n) == IF n = 0 THEN 0 ELSE PctSum(lines, n - 1) + lines[n].pct.num

\* C7: with a nonzero tracked total the report holds one line per stage with
\* nonzero time (the stages below P_STAGES, which are those that count towards
\* the total), in registry order, each with duration / trackedTotal * 100,
\* then one TOTAL line with the tracked total and 100%; the percentages sum to
\* 100, and a single nonzero stage is reported at 100.0%.
C7_ReportRows ==
  (lastOp.op = "output" /\ Tracked(Reported) # 0) =>
    LET d == Reported
        n == Len(os) - 1
        shown == {i \in RowStages : d[i] # 0}
    IN  /\ n = Cardinality(shown)
        /\ \A k \in 1 .. n :
             /\ os[k].name \in {stageNames[i + 1] : i \in shown}
             /\ os[k].time = d[StageOf(os[k].name)]
             /\ os[k].timeShown = 10 * os[k].time
             /\ os[k].pct.den # 0
             /\ os[k].pct.num * Tracked(d) = 100 * os[k].time * os[k].pct.den
             /\ 2 * os[k].pct.den * os[k].pctShown >= 20 * os[k].pct.num - os[k].pct.den
             /\ 2 * os[k].pct.den * os[k].pctShown <= 20 * os[k].pct.num + os[k].pct.den
        /\ \A k, l \in 1 .. n : k < l => StageOf(os[k].name) < StageOf(os[l].name)
        /\ os[n + 1].name = "TOTAL"
        /\ os[n + 1].time = Tracked(d)
        /\ os[n + 1].timeShown = 10 * Tracked(d)
        /\ os[n + 1].pctShown = 1000
        /\ PctSum(os, n) = 100 * Tracked(d)
        /\ n = 1 => os[1].pctShown = 1000

\* C7 witness: a report of two stages at 33.3% and 66.7%, in registry order,
\* under a TOTAL of 3.0 ms.
C7_Witness ==
  /\ lastOp.op = "output"
  /\ Len(os) = 3
  /\ os[1].name = "P_INTRAPRED" /\ os[1].pctShown = 333
  /\ os[2].name = "P_OTHER" /\ os[2].pctShown = 667
  /\ os[3].name = "TOTAL" /\ os[3].timeShown = 30

\* C8 as stated: with a zero tracked total every percentage of the report,
\* the one of the TOTAL line included, is 0, no division by zero is
\* evaluated, and the TOTAL line shows zero duration.
C8_Original ==
  (lastOp.op = "output" /\ Tracked(Reported) = 0) =>
    /\ \A k \in 1 .. Len(os) : os[k].pct.den # 0 /\ os[k].pctShown = 0
    /\ os[Len(os)].name = "TOTAL"
    /\ os[Len(os)].time = 0

\* C8 amended: with a zero tracked total the report has no stage line, so no
\* percentage is computed and no division by zero is evaluated; its only line
\* is TOTAL, with zero duration and the constant 100.0%.
C8_ZeroTotal ==
  (lastOp.op = "output" /\ Tracked(Reported) = 0) =>
    /\ \A k \in 1 .. Len(os) : os[k].pct.den # 0
    /\ Len(os) = 1
    /\ os[1].name = "TOTAL"
    /\ os[1].time = 0
    /\ os[1].timeShown = 0
    /\ os[1].pctShown = 1000

\* C8 witness: a report written after calls that left every stage at zero.
C8_Witness ==
  /\ lastOp.op = "output"
  /\ hist.called
  /\ prof[1].m_previous > 0
  /\ Tracked(Reported) = 0

\* the time in the stages that are no sentinel: neither "other" nor "none"
RealTime(d) == SumAll(d) - d[P_VOID] - d[P_OTHER]

\* C9 as stated: the TOTAL value and the denominator of every percentage are
\* the sum over the stages that are no sentinel: the time in "none" and the
\* time in "other" are both left out.
C9_Original ==
  lastOp.op = "output" =>
    /\ os[Len(os)].time = RealTime(Reported)
    /\ \A k \in 1 .. (Len(os) - 1) : os[k].pct.den = RealTime(Reported)

\* C9 amended: the TOTAL value and the denominator of every percentage are the
\* sum over every stage but "none": the time in "other" is part of the total
\* (and "other" has a line of its own), only the time in "none" is left out.
C9_TrackedTotal ==
  lastOp.op = "output" =>
    /\ os[Len(os)].time = RealTime(Reported) + Reported[P_OTHER]
    /\ \A k \in 1 .. (Len(os) - 1) :
         os[k].pct.den = RealTime(Reported) + Reported[P_OTHER]
    /\ Reported[P_OTHER] # 0 => \E k \in 1 .. (Len(os) - 1) : os[k].name = "P_OTHER"
    /\ \A k \in 1 .. Len(os) : os[k].name # stageNames[P_VOID + 1]

\* C9 witness: a report written with time in "other", in "none" and in a
\* stage that is no sentinel.
C9_Witness ==
  /\ lastOp.op = "output"
  /\ Reported[P_OTHER] > 0
  /\ Reported[P_VOID] > 0
  /\ Reported[P_INTRAPRED] > 0
  /\ os[Len(os)].time = Reported[P_OTHER] + Reported[P_INTRAPRED]

\* C10: right after construction the active stage is "none" and every bucket
\* is zero, so a report taken then has a tracked total of 0; the first
\* transition charges the time since construction to "none" alone, and that
\* time is no part of the reported total.
C10_InitialState ==
  /\ [](~hist.called =>
          /\ prof[1].m_eStage = P_VOID
          /\ \A i \in Slots : prof[1].durations[i] = 0
          /\ lastOp.op = "output" => (Len(os) = 1 /\ os[1].time = 0))
  /\ [][\A s \in StageInReport :
          (~hist.called /\ Transition(1, s)) =>
            /\ prof'[1].durations[P_VOID] = Ms(0, clock)
            /\ \A i \in Slots \ {P_VOID} : prof'[1].durations[i] = 0]_vars
  /\ [](lastOp.op = "output" =>
          os[Len(os)].time + Reported[P_VOID] = SumAll(Reported))

\* C10 witness: a report written after the first transition, made some time
\* after construction, shows a total of zero.
C10_Witness ==
  /\ lastOp.op = "output"
  /\ hist.called /\ hist.pure
  /\ hist.firstT > 0
  /\ Reported[P_VOID] = Ms(0, hist.firstT)
  /\ Len(os) = 1
  /\ os[1].time = 0

\* C15: start(stage) sets the last transition time to now and the active
\* stage to `stage' and leaves every bucket as it was: the interval open when
\* it is called is charged to no stage.
C15_StartReanchors ==
  [][\A s \in StageIn :
       Start(1, s) =>
         /\ prof'[1].m_previous = clock
         /\ prof'[1].m_eStage = s
         /\ \A i \in Slots : prof'[1].durations[i] = prof[1].durations[i]]_vars

\* C15 witness: a start() called two milliseconds after construction, as the
\* first call, leaves every bucket at zero.
C15_Witness ==
  /\ lastOp.op = "start"
  /\ lastOp.dt = 2
  /\ prof[1].m_eStage = P_INTRAPRED
  /\ SumAll(prof[1].durations) = 0

\* C16: while guards are constructed and destroyed in LIFO order, with no
\* direct call in between, the active stage is the stage of the innermost live
\* guard, and the destruction of the outermost guard restores the stage that
\* was active before its construction.
C16_GuardStack ==
  /\ []((disc.lifo /\ Len(guards[1]) > 0) =>
          prof[1].m_eStage = guards[1][Len(guards[1])].stage)
  /\ [][(disc.lifo /\ Len(guards[1]) = 1 /\ GuardExit(1, 1)) =>
          prof'[1].m_eStage = disc.before]_vars

\* C16 witness: two nested guards were left in LIFO order and the stage from
\* before the outer one, set by an earlier bracket, is active again.
C16_Witness ==
  /\ nest.phase = 4
  /\ disc.lifo
  /\ Len(guards[1]) = 0
  /\ disc.before = P_VOID
  /\ prof[1].m_eStage = P_VOID
  /\ nest.Y = P_INTRAPRED
  /\ nest.X = P_MOTCOMP

\* C17: in whatever order live guards are destroyed, the active stage and the
\* stage every live guard holds stay indices of the accumulation mapping, and
\* the buckets, "none" included, sum to the time between construction and
\* the latest transition.
C17_NonLifoSafe ==
  /\ prof[1].m_eStage \in DOMAIN prof[1].durations
  /\ DOMAIN prof[1].durations = Slots
  /\ \A k \in 1 .. Len(guards[1]) :
       guards[1][k].m_ePrevStage \in DOMAIN prof[1].durations
  /\ SumAll(prof[1].durations) = Ms(0, hist.lastT)

\* C17 witness: the outer of two guards was destroyed first: the stage of the
\* guard still live is not the active one, and time has been charged since.
C17_Witness ==
  /\ ~disc.lifo
  /\ Len(guards[1]) = 1
  /\ prof[1].m_eStage # guards[1][1].stage
  /\ lastOp.op = "exit"
  /\ SumAll(prof[1].durations) >= 2

\* C19: a += b changes nothing of b and neither the active stage nor the last
\* transition time of a, and the next transition of a charges the interval
\* open since that time, once, to the stage of a that was active.
C19_MergeFrame ==
  /\ [][\A a, b \in Ctx :
          Merge(a, b) =>
            /\ prof'[b] = prof[b]
            /\ prof'[a].m_eStage = prof[a].m_eStage
            /\ prof'[a].m_previous = prof[a].m_previous]_vars
  /\ [][\A c \in Ctx, s \in StageInMerge :
          (lastOp.op = "merge" /\ lastOp.c = c /\ Transition(c, s)) =>
            \A i \in Slots :
              prof'[c].durations[i] =
                prof[c].durations[i] +
                  (IF i = prof[c].m_eStage THEN Ms(prof[c].m_previous, clock) ELSE 0)]_vars

\* C19 witness: the transition that follows a merge made while an interval was
\* open on the merged-into profiler, whose stage differed from the other's.
C19_Witness ==
  /\ lastOp.op = "transition"
  /\ lastOp.c = 1
  /\ lastOp.dt = 1
  /\ lastOp.from = P_INTRAPRED
  /\ prof[2].m_eStage = P_VOID
  /\ prof[2].m_previous # prof[1].m_previous
  /\ prof[2].durations[P_INTRAPRED] = 1
  /\ prof[1].durations[P_INTRAPRED] = 2
  /\ ~hist.pure

\* the keys of the cells of one layer
LayerKeys(z) ==
  { [s |-> s, x |-> x, y |-> y, z |-> z] :
      s \in CntTypes, x \in 0 .. (NumX - 1), y \in 0 .. (NumY - 1) }

\* every key of every layer
AllKeys == UNION { LayerKeys(z) : z \in 0 .. (NumZ - 1) }

\* the sum over all ( stage, x, y ) cells of layer z
LayerSum(p, z) ==
  SumTo([s \in CntTypes |->
           SumTo([y \in 0 .. (NumY - 1) |->
                    SumTo(p.m_counters[z][s][y], NumX)], NumY)],
        Len(stageNames))

\* C11: count(stage, x, y, z) adds the interval since the last timestamp, in
\* clock ticks, to the one cell of the stage and coordinates current before
\* the call, leaves every other cell of every layer unchanged, and then makes
\* (stage, x, y, z) current and the timestamp now.
C11_SpatialRetroactive ==
  [][\A k \in KeyIn :
       Count2D(k) =>
         /\ \A c \in AllKeys :
              Cell(prof2', c) =
                Cell(prof2, c) +
                  (IF c = CurKey(prof2) THEN clock - prof2.m_previous ELSE 0)
         /\ CurKey(prof2') = k
         /\ prof2'.m_previous = clock]_vars

\* C11 witness: count() with a first key at 0 and with a second key of another
\* layer two milliseconds later: the ticks are in the cell of the first key.
C11_Witness ==
  /\ lastOp.op = "count"
  /\ lastOp.from = P_INTRAPRED
  /\ lastOp.dt = 2 * TicksPerMs
  /\ CurKey(prof2) = [s |-> P_MOTCOMP, x |-> 0, y |-> 1, z |-> 1]
  /\ Cell(prof2, [s |-> P_INTRAPRED, x |-> 1, y |-> 0, z |-> 0]) = 2 * TicksPerMs
  /\ Cell(prof2, CurKey(prof2)) = 0

\* C12 as stated: after any sequence of count, start and stop calls the cells
\* of layer z sum to the time z was the current layer up to the latest call.
C12_Original ==
  \A z \in 0 .. (NumZ - 1) : LayerSum(prof2, z) = hist2.spent[z]

\* C12: after any sequence of count, start and stop calls the cells of layer
\* z sum to the clock ticks z was the current layer up to the latest call,
\* less the intervals that were open when start() was called.
C12_LayerSum ==
  \A z \in 0 .. (NumZ - 1) :
    LayerSum(prof2, z) = hist2.spent[z] - hist2.dropped[z]

\* C12 witness: both layers have been charged, and a start() has discarded
\* an interval of layer 0.
C12_Witness ==
  /\ hist2.dropped[0] > 0
  /\ LayerSum(prof2, 0) > 0
  /\ LayerSum(prof2, 1) > 0
  /\ lastOp.op = "stop2d"

\* C13: a guard's construction makes its key current; its destruction, the
\* guards being destroyed innermost first, makes the key current that was
\* so before its construction, and the cell of the guard's key has grown by
\* the ticks between construction and destruction outside inner guards
\* (and inside inner guards of the very same key).
C13_GuardRestores ==
  /\ [][\A k \in KeyIn :
          GuardEnter2D(k) =>
            /\ CurKey(prof2') = k
            /\ LET g == guards2'[Len(guards2')].g
               IN  [s |-> g.m_prevStage, x |-> g.m_prevX,
                    y |-> g.m_prevY, z |-> g.m_prevZ] = CurKey(prof2)]_vars
  /\ [][GuardExit2D =>
          LET r == Charged(guards2, clock - hist2.lastT)[Len(guards2)]
          IN  /\ CurKey(prof2') = r.before
              /\ Cell(prof2', r.key) = r.cell0 + r.mine + r.inner]_vars

\* C13 witness: an inner guard of another key has been destroyed after one
\* millisecond inside an outer guard that had run for one millisecond; the
\* outer key is current again and its cell holds the outer guard's ticks.
C13_Witness ==
  /\ lastOp.op = "exit2d"
  /\ lastOp.dt = TicksPerMs
  /\ Len(guards2) = 1
  /\ guards2[1].mine = TicksPerMs
  /\ guards2[1].inner = 0
  /\ guards2[1].cell0 = 0
  /\ guards2[1].before.s = P_VOID
  /\ lastOp.from # guards2[1].key.s
  /\ CurKey(prof2) = guards2[1].key
  /\ Cell(prof2, guards2[1].key) = TicksPerMs

\* C14: whatever the interleaving of the contexts' transition, start and stop
\* calls on their own profilers, no call changes the other context's
\* profiler, and after the coordinator's merge behind the synchronisation
\* point every bucket is the sum of what the contexts accumulated.
C14_OwnershipMerge ==
  /\ [](sync = "merged" =>
          \A i \in Slots : prof[1].durations[i] = own[1][i] + own[2][i])
  /\ [][\A c \in Ctx, s \in StageInMerge, call \in {"transition", "start", "stop"} :
          Work(c, s, call) => \A d \in Ctx \ {c} : prof'[d] = prof[d]]_vars

\* C14 witness: the merge has been made, and both contexts had accumulated
\* time of the same stage.
C14_Witness ==
  /\ sync = "merged"
  /\ own[1][P_INTRAPRED] = 1
  /\ own[2][P_INTRAPRED] = 2
  /\ prof[1].durations[P_INTRAPRED] = 3
  /\ prof[2].durations[P_INTRAPRED] = 2

\* C18: spatial stop() adds the open interval to the current cell, leaves
\* every other cell, the stage and the coordinates unchanged and makes the
\* timestamp now; spatial start(stage) changes the timestamp and the stage
\* and nothing else.
C18_StopStartFrame ==
  /\ [][Stop2D =>
          /\ \A c \in AllKeys :
               Cell(prof2', c) =
                 Cell(prof2, c) +
                   (IF c = CurKey(prof2) THEN clock - prof2.m_previous ELSE 0)
          /\ CurKey(prof2') = CurKey(prof2)
          /\ prof2'.m_previous = clock]_vars
  /\ [][\A s \in StageIn2D :
          Start2D(s) =>
            /\ prof2'.m_counters = prof2.m_counters
            /\ prof2'.m_curX = prof2.m_curX
            /\ prof2'.m_curY = prof2.m_curY
            /\ prof2'.m_curZ = prof2.m_curZ
            /\ prof2'.m_stage = s
            /\ prof2'.m_previous = clock]_vars

\* C18 witness: a stop() one millisecond after an earlier flush of the same
\* cell, which holds both milliseconds once, at coordinates a start() has
\* left where a count() had put them.
C18_Witness ==
  /\ lastOp.op = "stop2d"
  /\ lastOp.dt = TicksPerMs
  /\ lastOp.from = P_INTRAPRED
  /\ clock = 3 * TicksPerMs
  /\ CurKey(prof2) = [s |-> P_INTRAPRED, x |-> 0, y |-> 1, z |-> 1]
  /\ Cell(prof2, CurKey(prof2)) = 2 * TicksPerMs
  /\ hist2.dropped[1] = TicksPerMs

\* C20: the amount count() adds to the cell current before the call is the
\* elapsed interval in milliseconds, as in the scalar profiler.
C20_UnitIsMs ==
  [][\A k \in KeyIn :
       Count2D(k) =>
         Cell(prof2', CurKey(prof2)) =
           Cell(prof2, CurKey(prof2)) + Ms(prof2.m_previous, clock)]_vars

=============================================================================
